---- MODULE Spec2Model ----
(***************************************************************************)
(* Name reconciliation and spatial join of the TRI risk dashboard          *)
(* (src/app.py).  Strings are sequences of one-character strings.  An      *)
(* optional value (pandas NaN / Python None) is the empty sequence << >>,  *)
(* a present value v is the one-element sequence <<v>>.                    *)
(***************************************************************************)
EXTENDS Integers, Sequences, FiniteSets, TLC

VARIABLES
    \* smart_fix_name applied to one value, then to its own result
    npc, name_in, out1, out2,
    \* main(): the map column
    pc, selected_state, target_week, gdf, state_data, risk_df, state_gdf,
    clean_map, clean_excel, map_names, excel_names, mapping, fuzzy_calls,
    merged, warnings,
    \* main(): the details column
    dpc, selected_dist_map, indicators_df, indicators, indicator_fuzzy,
    \* main() run again and again in one session: the click on the map, the
    \* default of the district selector, the villages of the district
    spc, data_map, selected_district_click, click_district_list,
    clicked_district, click_match, default_index, villages_gdf, target_dist,
    v_match, local_villages,
    \* main(): the village click (containment query)
    cpc, poly, district_resources, possible_matches_index, amenities_inside

normVars == <<npc, name_in, out1, out2>>
mapVars  == <<pc, selected_state, target_week, gdf, state_data, risk_df,
              state_gdf, clean_map, clean_excel, map_names, excel_names,
              mapping, fuzzy_calls, merged, warnings>>
geoVars  == <<cpc, poly, district_resources, possible_matches_index,
              amenities_inside>>
detailVars == <<dpc, selected_dist_map, indicators_df, indicators,
                indicator_fuzzy>>
sessionVars == <<spc, data_map, selected_district_click, click_district_list,
                 clicked_district, click_match, default_index, villages_gdf,
                 target_dist, v_match, local_villages>>
vars     == <<normVars, mapVars, geoVars, detailVars, sessionVars>>

----------------------------------------------------------------------------
(* Bounds of the model *)

MaxNameLen == 4      \* longest string handed to smart_fix_name on its own
MaxInt == 10         \* largest integer handed to smart_fix_name
MaxPolys == 2        \* polygons of the selected state
MaxDistricts == 2    \* sheets (districts) of the selected state's workbook
MaxResources == 2    \* amenity geometries of the district

----------------------------------------------------------------------------
(* Python values and strings *)

None == << >>
Some(v) == <<v>>

PyStr(s) == [kind |-> "str", val |-> s]
PyInt(n) == [kind |-> "int", val |-> n]
PyNone == [kind |-> "none", val |-> 0]
PyNaN == [kind |-> "float", val |-> 0]        \* float('nan')

\* The characters of the model in code-point order.
Alphabet ==
    <<" ","!","$","(",")",".","0","1","2","3","4","5","6","7","8","9","<",">",
      "@","A","B","C","D","E","F","G","H","I","J","K","L","M","N","O","P","Q",
      "R","S","T","U","V","W","X","Y","Z","a","b","c","d","e","f","g","h","i",
      "j","k","l","m","n","o","p","q","r","s","t","u","v","w","x","y","z","|">>

Lowercase ==
    <<"a","b","c","d","e","f","g","h","i","j","k","l","m","n","o","p","q","r",
      "s","t","u","v","w","x","y","z">>

Uppercase ==
    <<"A","B","C","D","E","F","G","H","I","J","K","L","M","N","O","P","Q","R",
      "S","T","U","V","W","X","Y","Z">>

Digits == <<"0","1","2","3","4","5","6","7","8","9">>

\* ord(c), up to an order-preserving renumbering
OrdTable ==
    [c \in {Alphabet[i] : i \in 1..Len(Alphabet)} |->
        CHOOSE i \in 1..Len(Alphabet) : Alphabet[i] = c]

Ord(c) == OrdTable[c]

\* Python's s1 < s2 on str: lexicographic by code point, a proper prefix first
RECURSIVE StrLess(_, _)
StrLess(s, t) ==
    IF t = << >> THEN FALSE
    ELSE IF s = << >> THEN TRUE
    ELSE IF s[1] # t[1] THEN Ord(s[1]) < Ord(t[1])
    ELSE StrLess(Tail(s), Tail(t))

\* str.upper() on the characters of the model
UpperTable ==
    [c \in {Alphabet[i] : i \in 1..Len(Alphabet)} |->
        IF \E i \in 1..Len(Lowercase) : Lowercase[i] = c
        THEN Uppercase[CHOOSE i \in 1..Len(Lowercase) : Lowercase[i] = c]
        ELSE c]

UpperChar(c) == UpperTable[c]

upper(s) == [i \in 1..Len(s) |-> UpperChar(s[i])]

\* str.lower() on the characters of the model
LowerTable ==
    [c \in {Alphabet[i] : i \in 1..Len(Alphabet)} |->
        IF \E i \in 1..Len(Uppercase) : Uppercase[i] = c
        THEN Lowercase[CHOOSE i \in 1..Len(Uppercase) : Uppercase[i] = c]
        ELSE c]

lower(s) == [i \in 1..Len(s) |-> LowerTable[s[i]]]

\* str.strip(): leading and trailing whitespace removed
RECURSIVE lstrip(_)
lstrip(s) == IF s # << >> /\ s[1] = " " THEN lstrip(Tail(s)) ELSE s

RECURSIVE rstrip(_)
rstrip(s) ==
    IF s # << >> /\ s[Len(s)] = " " THEN rstrip(SubSeq(s, 1, Len(s) - 1)) ELSE s

strip(s) == rstrip(lstrip(s))

\* str.replace(old, new) for a non-empty old: leftmost non-overlapping
\* occurrences, scanned left to right
RECURSIVE replace(_, _, _)
replace(s, old, new) ==
    IF Len(s) < Len(old) THEN s
    ELSE IF SubSeq(s, 1, Len(old)) = old
         THEN new \o replace(SubSeq(s, Len(old) + 1, Len(s)), old, new)
         ELSE <<s[1]>> \o replace(Tail(s), old, new)

\* str(n) of a non-negative int
RECURSIVE IntToStr(_)
IntToStr(n) ==
    IF n < 10 THEN <<Digits[n + 1]>>
    ELSE IntToStr(n \div 10) \o <<Digits[(n % 10) + 1]>>

\* str(x)
str(x) ==
    CASE x.kind = "str" -> x.val
      [] x.kind = "int" -> IntToStr(x.val)
      [] x.kind = "none" -> <<"N","o","n","e">>
      [] x.kind = "float" -> <<"n","a","n">>

----------------------------------------------------------------------------
(* smart_fix_name *)

\* the replacements dict, in insertion order
replacements ==
    << << <<"|">>, <<"I">> >>,
       << <<">">>, <<"A">> >>,
       << <<"<">>, <<"A">> >>,
       << <<"@">>, <<"U">> >>,
       << <<"!">>, <<"I">> >>,
       << <<"0">>, <<"O">> >>,
       << <<"$">>, <<"S">> >>,
       << <<"(">>, << >> >>,
       << <<")">>, << >> >>,
       << <<"D","I","S","T","R","I","C","T">>, << >> >>,
       << <<"D","T",".">>, << >> >>,
       << <<"D","T">>, << >> >> >>

\* for symbol, letter in replacements.items(): clean = clean.replace(...)
RECURSIVE ApplyReplacements(_, _)
ApplyReplacements(clean, k) ==
    IF k > Len(replacements) THEN clean
    ELSE ApplyReplacements(
             replace(clean, replacements[k][1], replacements[k][2]), k + 1)

smart_fix_name(name) ==
    IF name.kind # "str" THEN str(name)
    ELSE strip(ApplyReplacements(strip(upper(name.val)), 1))

----------------------------------------------------------------------------
(* The normalizer on its own: one value normalized, then the result again *)

NormChars == {"D", "T", ".", "(", "0", " ", "t", "|"}

BoundedSeq(S, n) == UNION {[1..k -> S] : k \in 0..n}

NormInputs ==
    {PyStr(s) : s \in BoundedSeq(NormChars, MaxNameLen)}
        \cup {PyInt(n) : n \in 0..MaxInt} \cup {PyNone, PyNaN}

NormIdle ==
    /\ npc = "idle"
    /\ name_in = PyNone
    /\ out1 = << >>
    /\ out2 = << >>

\* out1 = smart_fix_name(name_in)
Normalize ==
    /\ npc = "input"
    /\ out1' = smart_fix_name(name_in)
    /\ npc' = "once"
    /\ UNCHANGED <<name_in, out2>>

\* out2 = smart_fix_name(out1)
Renormalize ==
    /\ npc = "once"
    /\ out2' = smart_fix_name(PyStr(out1))
    /\ npc' = "twice"
    /\ UNCHANGED <<name_in, out1>>

----------------------------------------------------------------------------
(* difflib.get_close_matches, as called by main() *)

Min(a, b) == IF a < b THEN a ELSE b

SetMin(S) == CHOOSE x \in S : \A y \in S : x <= y

SetMax(S) == CHOOSE x \in S : \A y \in S : y <= x

\* _calculate_ratio(matches, length) as the fraction <<numerator, denominator>>
\* (2.0 * matches / length, and 1.0 for length 0)
calculate_ratio(matches, length) ==
    IF length # 0 THEN <<2 * matches, length>> ELSE <<1, 1>>

\* float comparison of two such fractions
RatioLess(r, q) == r[1] * q[2] < q[1] * r[2]

\* ratio >= cutoff, the cutoff given in tenths
AtLeast(r, cutoffTenths) == r[1] * 10 >= cutoffTenths * r[2]

\* SequenceMatcher.real_quick_ratio
real_quick_ratio(a, b) == calculate_ratio(Min(Len(a), Len(b)), Len(a) + Len(b))

Count(s, c) == Cardinality({i \in 1..Len(s) : s[i] = c})

\* SequenceMatcher.quick_ratio: the size of the multiset intersection
quick_ratio(a, b) ==
    LET chars == {a[i] : i \in 1..Len(a)}
        RECURSIVE Sum(_)
        Sum(S) == IF S = {} THEN 0
                  ELSE LET c == CHOOSE x \in S : TRUE
                       IN Min(Count(a, c), Count(b, c)) + Sum(S \ {c})
    IN calculate_ratio(Sum(chars), Len(a) + Len(b))

\* length of the common run of a from i and b from j, inside a[..ahi], b[..bhi]
RECURSIVE RunLen(_, _, _, _, _, _)
RunLen(a, b, i, j, ahi, bhi) ==
    IF i > ahi \/ j > bhi \/ a[i] # b[j] THEN 0
    ELSE 1 + RunLen(a, b, i + 1, j + 1, ahi, bhi)

\* SequenceMatcher.find_longest_match on a[alo..ahi], b[blo..bhi] (1-based,
\* inclusive, no junk): the longest block, of those the one starting earliest
\* in a, of those the one starting earliest in b; <<alo, blo, 0>> if none
find_longest_match(a, b, alo, ahi, blo, bhi) ==
    LET pairs == (alo..ahi) \X (blo..bhi)
        size == [p \in pairs |-> RunLen(a, b, p[1], p[2], ahi, bhi)]
        bestsize == SetMax({size[p] : p \in pairs})
        longest == {p \in pairs : size[p] = bestsize}
        besti == SetMin({p[1] : p \in longest})
        bestj == SetMin({p[2] : p \in {q \in longest : q[1] = besti}})
    IN IF pairs = {} \/ bestsize = 0 THEN <<alo, blo, 0>>
       ELSE <<besti, bestj, bestsize>>

\* sum of the sizes of SequenceMatcher.get_matching_blocks
RECURSIVE MatchingSize(_, _, _, _, _, _)
MatchingSize(a, b, alo, ahi, blo, bhi) ==
    IF alo > ahi \/ blo > bhi THEN 0
    ELSE LET m == find_longest_match(a, b, alo, ahi, blo, bhi)
             i == m[1]
             j == m[2]
             k == m[3]
         IN IF k = 0 THEN 0
            ELSE k + MatchingSize(a, b, alo, i - 1, blo, j - 1)
                   + MatchingSize(a, b, i + k, ahi, j + k, bhi)

\* SequenceMatcher.ratio
ratio(a, b) ==
    calculate_ratio(MatchingSize(a, b, 1, Len(a), 1, Len(b)), Len(a) + Len(b))

\* mutant: the tuples compared by score alone
TupleGreater_ScoreOnly(t1, t2) == RatioLess(t2[1], t1[1])

\* Python's t1 > t2 on the tuples (score, x)
TupleGreater(t1, t2) ==
    \/ RatioLess(t2[1], t1[1])
    \/ ~RatioLess(t1[1], t2[1]) /\ StrLess(t2[2], t1[2])

\* heapq.nlargest(1, result): max(result), the first of the maximal elements
RECURSIVE MaxFrom(_, _, _)
MaxFrom(result, k, best) ==
    IF k > Len(result) THEN best
    ELSE MaxFrom(result, k + 1,
                 IF TupleGreater(result[k], best) THEN result[k] ELSE best)

nlargest1(result) ==
    IF result = << >> THEN << >> ELSE <<MaxFrom(result, 2, result[1])>>

\* the (score, x) list of the candidates that pass the cutoff, in the order
\* of possibilities (seq1 = x, seq2 = word)
RECURSIVE Scored(_, _, _, _)
Scored(word, possibilities, cutoffTenths, k) ==
    IF k > Len(possibilities) THEN << >>
    ELSE LET x == possibilities[k]
             rest == Scored(word, possibilities, cutoffTenths, k + 1)
         IN IF /\ AtLeast(real_quick_ratio(x, word), cutoffTenths)
               /\ AtLeast(quick_ratio(x, word), cutoffTenths)
            THEN LET score == ratio(x, word)
                 IN IF AtLeast(score, cutoffTenths)
                    THEN << <<score, x>> >> \o rest
                    ELSE rest
            ELSE rest

\* difflib.get_close_matches(word, possibilities, n=1, cutoff): << >> or <<x>>
get_close_matches(word, possibilities, cutoffTenths) ==
    LET best == nlargest1(Scored(word, possibilities, cutoffTenths, 1))
    IN IF best = << >> THEN << >> ELSE <<best[1][2]>>

----------------------------------------------------------------------------
(* main(): the alias table and the data frames *)

\* UNIVERSAL_FIXES, in insertion order: <<key, value>>
UNIVERSAL_FIXES ==
    << <<<<"K","H","E","R","I">>,
         <<"L","A","K","H","I","M","P","U","R"," ","K","H","E","R","I">>>>,
       <<<<"L","A","K","H","I","M","P","U","R">>,
         <<"L","A","K","H","I","M","P","U","R"," ","K","H","E","R","I">>>>,
       <<<<"B","H","A","D","O","H","I">>,
         <<"S","A","N","T"," ","R","A","V","I","D","A","S"," ","N","A","G","A","R">>>>,
       <<<<"S","A","N","T"," ","R","A","V","I","D","A","S"," ","N","A","G","A","R">>,
         <<"B","H","A","D","O","H","I">>>>,
       <<<<"K","U","S","H","I"," ","N","A","G","A","R">>,
         <<"K","U","S","H","I","N","A","G","A","R">>>>,
       <<<<"S","I","D","D","H","A","R","T","H"," ","N","A","G","A","R">>,
         <<"S","I","D","D","H","A","R","T","H","N","A","G","A","R">>>>,
       <<<<"A","M","R","O","H","A">>,
         <<"J","Y","O","T","I","B","A"," ","P","H","U","L","E"," ","N","A","G","A","R">>>>,
       <<<<"H","A","T","H","R","A","S">>,
         <<"M","A","H","A","M","A","Y","A"," ","N","A","G","A","R">>>>,
       <<<<"K","A","S","G","A","N","J">>,
         <<"K","A","N","S","H","I","R","A","M"," ","N","A","G","A","R">>>>,
       <<<<"S","A","M","B","H","A","L">>,
         <<"B","H","I","M"," ","N","A","G","A","R">>>>,
       <<<<"S","H","A","M","L","I">>,
         <<"P","R","A","B","U","D","D","H"," ","N","A","G","A","R">>>>,
       <<<<"H","A","P","U","R">>,
         <<"P","A","N","C","H","S","H","E","E","L"," ","N","A","G","A","R">>>>,
       <<<<"S","H","R","A","W","A","S","T","I">>,
         <<"S","H","R","A","V","A","S","T","I">>>> >>

AliasKeys(table) == {table[k][1] : k \in 1..Len(table)}

AliasValue(table, n) == table[CHOOSE k \in 1..Len(table) : table[k][1] = n][2]

\* Series.replace(table) on one value: a value equal to a key becomes that
\* key's value, any other value is kept; every value is looked up once, in
\* the column as it was before the call
Replace1(table, n) == IF n \in AliasKeys(table) THEN AliasValue(table, n) ELSE n

Range(s) == {s[i] : i \in 1..Len(s)}

\* Series.unique(): the distinct values in order of first appearance
RECURSIVE unique(_)
unique(s) ==
    IF s = << >> THEN << >>
    ELSE LET init == unique(SubSeq(s, 1, Len(s) - 1))
         IN IF s[Len(s)] \in Range(init) THEN init ELSE Append(init, s[Len(s)])

\* Series.fillna(v) on one value
fillna(opt, v) == IF opt = None THEN v ELSE opt[1]

\* week_row = df[df['Week'] == target_week]
WeekRows(df, week) == SelectSeq(df, LAMBDA r : r.Week = week)

\* lines 237-244: one row of risk_df per district that has a row for the
\* week, the score being that of the first such row (Score stands for the
\* column named by risk_type)
RECURSIVE MapRows(_, _)
MapRows(data, week) ==
    IF data = << >> THEN << >>
    ELSE LET week_row == WeekRows(data[1].df, week)
             rest == MapRows(Tail(data), week)
         IN IF week_row # << >>
            THEN <<[Excel_District |-> data[1].name,
                    RiskScore |-> week_row[1].Score]>> \o rest
            ELSE rest

\* mutant: the join key is the cleaned name, the mapping not applied
MERGE_KEY_Unmapped(cleanExcel, map, j) == Some(cleanExcel[j])

\* line 290: risk_df['MERGE_KEY'] = risk_df['CLEAN_EXCEL_NAME'].map(mapping)
MERGE_KEY(cleanExcel, map, j) == map[cleanExcel[j]]

\* the rows of risk_df whose MERGE_KEY equals the key, in the order of risk_df
RightMatches(key, cleanExcel, map) ==
    SelectSeq([j \in 1..Len(cleanExcel) |-> j],
              LAMBDA j : MERGE_KEY(cleanExcel, map, j) = Some(key))

\* mutant: Excel_District of an unmatched polygon filled with its map name
MergedRow_LabelInPlace(i, j, cleanMap, cleanExcel, riskDf, map) ==
    [poly |-> i,
     CLEAN_MAP_NAME |-> cleanMap[i],
     Excel_District |->
         IF j = None THEN Some(cleanMap[i])
         ELSE Some(riskDf[j[1]].Excel_District),
     MERGE_KEY |->
         IF j = None THEN None ELSE MERGE_KEY(cleanExcel, map, j[1]),
     RiskScore |-> IF j = None THEN None ELSE Some(riskDf[j[1]].RiskScore)]

\* one row of the left merge: the polygon i alone (j = None) or with the
\* row j of risk_df
MergedRow(i, j, cleanMap, cleanExcel, riskDf, map) ==
    [poly |-> i,
     CLEAN_MAP_NAME |-> cleanMap[i],
     Excel_District |->
         IF j = None THEN None ELSE Some(riskDf[j[1]].Excel_District),
     MERGE_KEY |->
         IF j = None THEN None ELSE MERGE_KEY(cleanExcel, map, j[1]),
     RiskScore |-> IF j = None THEN None ELSE Some(riskDf[j[1]].RiskScore)]

\* line 291: state_gdf.merge(risk_df, left_on='CLEAN_MAP_NAME',
\* right_on='MERGE_KEY', how='left'): every polygon in order, once per
\* matching row of risk_df, or once with nulls when there is none
RECURSIVE LeftMerge(_, _, _, _, _)
LeftMerge(i, cleanMap, cleanExcel, riskDf, map) ==
    IF i > Len(cleanMap) THEN << >>
    ELSE LET js == RightMatches(cleanMap[i], cleanExcel, map)
             rows == IF js = << >>
                     THEN <<MergedRow(i, None, cleanMap, cleanExcel, riskDf, map)>>
                     ELSE [k \in 1..Len(js) |->
                              MergedRow(i, Some(js[k]), cleanMap, cleanExcel,
                                        riskDf, map)]
         IN rows \o LeftMerge(i + 1, cleanMap, cleanExcel, riskDf, map)

\* line 292: Display_Label = Excel_District.fillna(CLEAN_MAP_NAME)
DisplayLabel(row) == fillna(row.Excel_District, row.CLEAN_MAP_NAME)

\* line 293: Risk Score = Risk Score.fillna(0)
FilledScore(row) == fillna(row.RiskScore, 0)

\* lines 290-293
MergeFrames(cleanMap, cleanExcel, riskDf, map) ==
    LET left == LeftMerge(1, cleanMap, cleanExcel, riskDf, map)
    IN [k \in 1..Len(left) |->
           [poly |-> left[k].poly,
            CLEAN_MAP_NAME |-> left[k].CLEAN_MAP_NAME,
            Excel_District |-> left[k].Excel_District,
            MERGE_KEY |-> left[k].MERGE_KEY,
            Display_Label |-> DisplayLabel(left[k]),
            RiskScore |-> FilledScore(left[k])]]

\* line 286: cutoff=0.7, in tenths
cutoff_district == 7

\* lines 256, 316: no cutoff given, difflib's default 0.6
cutoff_default == 6

\* mutant: difflib asked for every name, the exact test dropped
Reconcile1_AlwaysFuzzy(excel_name, names) ==
    LET closest == get_close_matches(excel_name, names, cutoff_district)
    IN IF closest # << >> THEN <<Some(closest[1]), TRUE>> ELSE <<None, TRUE>>

\* lines 284-288, one name: <<match or None, whether difflib was called>>
Reconcile1(excel_name, names) ==
    IF excel_name \in Range(names) THEN <<Some(excel_name), FALSE>>
    ELSE LET closest == get_close_matches(excel_name, names, cutoff_district)
         IN IF closest # << >> THEN <<Some(closest[1]), TRUE>>
            ELSE <<None, TRUE>>

----------------------------------------------------------------------------
(* main(): the map column, one run of the script *)

Weeks == {1, 2}

Bihar == <<"B","i","h","a","r">>
Goa == <<"G","o","a">>

\* the district attribute of the shapefile's polygons (one of them missing);
\* the shapefile holds one state
PolyDistricts ==
    {PyStr(<<"K","H","E","R","|">>),
     PyStr(<<"G","A","Y","A">>),
     PyStr(<<"G","A","Y","E">>),
     PyNone}

PolyPool == {[ST_NM |-> Bihar, District |-> d] : d \in PolyDistricts}

\* sheet names of the state workbook
SheetNames ==
    {<<"L","a","k","h","i","m","p","u","r">>,
     <<"G","A","Y">>,
     <<"G","a","y","e">>}

\* sheets: the first has two rows for week 1, the second none
DfPool ==
    {<<[Week |-> 1, Score |-> 0], [Week |-> 2, Score |-> 50],
       [Week |-> 1, Score |-> 50]>>,
     <<[Week |-> 2, Score |-> 80]>>}

Sheets == {[name |-> n, df |-> d] : n \in SheetNames, d \in DfPool}

NonEmptySeq(S, n) == UNION {[1..k -> S] : k \in 1..n}

\* a workbook: at least one sheet, sheet names distinct; the sheets are taken
\* in name order (their order only orders the rows of risk_df)
Workbooks ==
    {w \in NonEmptySeq(Sheets, MaxDistricts) :
        \A i, j \in 1..Len(w) : i < j => StrLess(w[i].name, w[j].name)}

\* the workbook of a state the shapefile does not hold
GoaWorkbooks ==
    {<<[name |-> <<"N","o","r","t","h"," ","G","o","a">>, df |-> d]>> :
        d \in DfPool}

\* load_data(): state name -> workbook, as (state, workbook) pairs
DataMaps ==
    ({Bihar} \X Workbooks) \cup ({Goa} \X GoaWorkbooks)

MapIdle ==
    /\ pc = "idle"
    /\ selected_state = << >>
    /\ target_week = 1
    /\ gdf = << >>
    /\ state_data = << >>
    /\ risk_df = << >>
    /\ state_gdf = << >>
    /\ clean_map = << >>
    /\ clean_excel = << >>
    /\ map_names = << >>
    /\ excel_names = << >>
    /\ mapping = << >>
    /\ fuzzy_calls = {}
    /\ merged = << >>
    /\ warnings = {}

\* lines 200-233: the data loaded, the state and the week selected
MapLoaded ==
    /\ pc = "load"
    /\ \E d \in DataMaps : selected_state = d[1] /\ state_data = d[2]
    /\ target_week \in Weeks
    /\ gdf \in NonEmptySeq(PolyPool, MaxPolys)
    /\ risk_df = << >>
    /\ state_gdf = << >>
    /\ clean_map = << >>
    /\ clean_excel = << >>
    /\ map_names = << >>
    /\ excel_names = << >>
    /\ mapping = << >>
    /\ fuzzy_calls = {}
    /\ merged = << >>
    /\ warnings = {}

\* lines 237-244
DataPrep ==
    /\ pc = "load"
    /\ risk_df' = MapRows(state_data, target_week)
    /\ pc' = "prepped"
    /\ UNCHANGED <<selected_state, target_week, gdf, state_data, state_gdf,
                   clean_map, clean_excel, map_names, excel_names, mapping,
                   fuzzy_calls, merged, warnings>>

\* line 253: risk_df.empty, no map is drawn
SkipMap ==
    /\ pc = "prepped"
    /\ risk_df = << >>
    /\ pc' = "done"
    /\ UNCHANGED <<selected_state, target_week, gdf, state_data, risk_df,
                   state_gdf, clean_map, clean_excel, map_names, excel_names,
                   mapping, fuzzy_calls, merged, warnings>>

\* lines 255-256: the state looked up among the shapefile's states
StateMatch(state, frame) ==
    get_close_matches(upper(state),
                      unique([i \in 1..Len(frame) |-> upper(frame[i].ST_NM)]),
                      cutoff_default)

\* lines 254-259: the polygons of the selected state
MatchState ==
    /\ pc = "prepped"
    /\ risk_df # << >>
    /\ LET match == StateMatch(selected_state, gdf)
       IN /\ match # << >>
          /\ state_gdf' = SelectSeq(gdf, LAMBDA f : upper(f.ST_NM) = match[1])
    /\ pc' = "state"
    /\ UNCHANGED <<selected_state, target_week, gdf, state_data, risk_df,
                   clean_map, clean_excel, map_names, excel_names, mapping,
                   fuzzy_calls, merged, warnings>>

\* lines 320-321: st.warning, no map is drawn
NoStateMatch ==
    /\ pc = "prepped"
    /\ risk_df # << >>
    /\ StateMatch(selected_state, gdf) = << >>
    /\ warnings' = warnings \cup
           {[msg |-> "Could not match state", name |-> selected_state]}
    /\ pc' = "done"
    /\ UNCHANGED <<selected_state, target_week, gdf, state_data, risk_df,
                   state_gdf, clean_map, clean_excel, map_names, excel_names,
                   mapping, fuzzy_calls, merged>>

\* the join key of a raw name: smart_fix_name, then .replace(UNIVERSAL_FIXES)
CleanName(raw) == Replace1(UNIVERSAL_FIXES, smart_fix_name(raw))

\* lines 266-282
CleanNames ==
    /\ pc = "state"
    /\ clean_map' = [i \in 1..Len(state_gdf) |-> CleanName(state_gdf[i].District)]
    /\ clean_excel' = [j \in 1..Len(risk_df) |->
                          CleanName(PyStr(risk_df[j].Excel_District))]
    /\ map_names' = unique(clean_map')
    /\ excel_names' = unique(clean_excel')
    /\ mapping' = << >>
    /\ fuzzy_calls' = {}
    /\ pc' = "mapping"
    /\ UNCHANGED <<selected_state, target_week, gdf, state_data, risk_df,
                   state_gdf, merged, warnings>>

\* lines 283-288, one iteration of the loop
MapName ==
    /\ pc = "mapping"
    /\ Cardinality(DOMAIN mapping) < Len(excel_names)
    /\ LET excel_name == excel_names[Cardinality(DOMAIN mapping) + 1]
           r == Reconcile1(excel_name, map_names)
       IN /\ mapping' = (excel_name :> r[1]) @@ mapping
          /\ fuzzy_calls' = IF r[2] THEN fuzzy_calls \cup {excel_name}
                            ELSE fuzzy_calls
    /\ UNCHANGED <<pc, selected_state, target_week, gdf, state_data, risk_df,
                   state_gdf, clean_map, clean_excel, map_names, excel_names,
                   merged, warnings>>

\* lines 290-293
Merge ==
    /\ pc = "mapping"
    /\ Cardinality(DOMAIN mapping) = Len(excel_names)
    /\ merged' = MergeFrames(clean_map, clean_excel, risk_df, mapping)
    /\ pc' = "merged"
    /\ UNCHANGED <<selected_state, target_week, gdf, state_data, risk_df,
                   state_gdf, clean_map, clean_excel, map_names, excel_names,
                   mapping, fuzzy_calls, warnings>>

----------------------------------------------------------------------------
(* main(): the details column, lines 326-339, and get_indicators *)

\* line 49: cutoff=0.7, in tenths
cutoff_indicators == 7

\* lines 44-45: smart_fix_name(str(x)).replace(" ", "")
MatchKey(x) == replace(smart_fix_name(PyStr(str(x))), <<" ">>, << >>)

\* get_indicators on the District column of indicators_df:
\* <<position of the row returned or None, whether difflib was called>>
get_indicators(district_name, frame) ==
    LET clean_dist == MatchKey(PyStr(district_name))
        keys == [r \in 1..Len(frame) |-> MatchKey(frame[r])]
        row == SelectSeq([r \in 1..Len(frame) |-> r],
                         LAMBDA r : keys[r] = clean_dist)
    IN IF row # << >> THEN <<Some(row[1]), FALSE>>
       ELSE LET matches == get_close_matches(clean_dist, unique(keys),
                                             cutoff_indicators)
            IN IF matches # << >>
               THEN <<Some(CHOOSE r \in 1..Len(frame) :
                              /\ keys[r] = matches[1]
                              /\ \A q \in 1..(r - 1) : keys[q] # matches[1]),
                      TRUE>>
               ELSE <<None, TRUE>>

\* the District column of District_Indicators.xlsx
IndicatorTables ==
    {<<PyStr(<<"G","a","y","a">>), PyStr(<<"G","A","Y"," ","E">>)>>,
     <<PyStr(<<"L","a","k","h","i","m","p","u","r"," ","D","t",".">>)>>}

DetailIdle ==
    /\ dpc = "idle"
    /\ selected_dist_map = << >>
    /\ indicators_df = << >>
    /\ indicators = None
    /\ indicator_fuzzy = FALSE

\* line 201: the indicators table loaded, no district selected yet
DetailLoaded ==
    /\ dpc = "select"
    /\ selected_dist_map = << >>
    /\ indicators_df \in IndicatorTables
    /\ indicators = None
    /\ indicator_fuzzy = FALSE

\* lines 331-339: a district that has a row for the week is selected and its
\* indicators are looked up
Details ==
    /\ pc \in {"merged", "done"}
    /\ dpc = "select"
    /\ \E d \in 1..Len(state_data) :
          /\ WeekRows(state_data[d].df, target_week) # << >>
          /\ selected_dist_map' = state_data[d].name
          /\ LET r == get_indicators(state_data[d].name, indicators_df)
             IN indicators' = r[1] /\ indicator_fuzzy' = r[2]
    /\ dpc' = "details"
    /\ UNCHANGED indicators_df

----------------------------------------------------------------------------
(* main(): the amenities inside a clicked village, lines 433-442.          *)
(* Geometries are sets of points of a small grid; the empty set is an      *)
(* empty geometry.                                                         *)

Coords == {0, 1}

Points == Coords \X Coords

Geometries == SUBSET Points

\* geometry.bounds of a non-empty geometry: (minx, miny, maxx, maxy)
bounds(g) ==
    <<SetMin({p[1] : p \in g}), SetMin({p[2] : p \in g}),
      SetMax({p[1] : p \in g}), SetMax({p[2] : p \in g})>>

\* mutant: boxes that only touch do not count
BoxesIntersect_Strict(a, b) ==
    /\ a[1] < b[3]
    /\ b[1] < a[3]
    /\ a[2] < b[4]
    /\ b[2] < a[4]

\* two boxes share a point (their edges included)
BoxesIntersect(a, b) ==
    /\ a[1] <= b[3]
    /\ b[1] <= a[3]
    /\ a[2] <= b[4]
    /\ b[2] <= a[4]

\* sindex.intersection(box): the positions of the non-empty geometries whose
\* bounding box intersects the box (ascending; the order is not used)
sindex_intersection(frame, box) ==
    SelectSeq([r \in 1..Len(frame) |-> r],
              LAMBDA r : frame[r] # {} /\ BoxesIntersect(bounds(frame[r]), box))

\* geometry.within(other): no point outside other, and not empty
within(g, other) == g # {} /\ g \subseteq other

GeoIdle ==
    /\ cpc = "idle"
    /\ poly = {}
    /\ district_resources = << >>
    /\ possible_matches_index = << >>
    /\ amenities_inside = << >>

\* lines 433-439: a village polygon clicked, the resources not empty
GeoLoaded ==
    /\ cpc = "clicked"
    /\ poly \in Geometries \ {{}}
    /\ district_resources \in NonEmptySeq(Geometries, MaxResources)
    /\ possible_matches_index = << >>
    /\ amenities_inside = << >>

\* line 440
PreFilter ==
    /\ cpc = "clicked"
    /\ possible_matches_index' = sindex_intersection(district_resources, bounds(poly))
    /\ cpc' = "candidates"
    /\ UNCHANGED <<poly, district_resources, amenities_inside>>

\* lines 441-442: the rows of possible_matches that are within poly
ExactFilter ==
    /\ cpc = "candidates"
    /\ amenities_inside' =
           SelectSeq(possible_matches_index,
                     LAMBDA r : within(district_resources[r], poly))
    /\ cpc' = "inside"
    /\ UNCHANGED <<poly, district_resources, possible_matches_index>>

----------------------------------------------------------------------------
(* main() over the reruns of one session: lines 197-198, 208-220, 309-319,  *)
(* 326-330, 349-372                                                         *)

SessionIdle ==
    /\ spc = "idle"
    /\ data_map = << >>
    /\ selected_district_click = None
    /\ click_district_list = << >>
    /\ clicked_district = None
    /\ click_match = None
    /\ default_index = None
    /\ villages_gdf = << >>
    /\ target_dist = << >>
    /\ v_match = None
    /\ local_villages = << >>

\* line 220: list(state_data.keys())
district_list(data) == [d \in 1..Len(data) |-> data[d].name]

\* line 211
advanced_states ==
    {<<"J","H","A","R","K","H","A","N","D">>,
     <<"U","T","T","A","R"," ","P","R","A","D","E","S","H">>,
     <<"M","A","D","H","Y","A"," ","P","R","A","D","E","S","H">>,
     <<"C","H","H","A","T","T","I","S","G","A","R","H">>,
     <<"A","S","S","A","M">>}

\* line 212
is_advanced_mode(state) == upper(strip(state)) \in advanced_states

\* line 370: cutoff=0.5, in tenths
cutoff_village == 5

\* position of the first element of a list equal to x (list.index, 1-based)
IndexOf(list, x) == CHOOSE k \in 1..Len(list) :
                        list[k] = x /\ \A q \in 1..(k - 1) : list[q] # x

\* variant: the label of the clicked row is stored as it is
ClickStore_Label(label, list, stored) == <<Some(label), None, TRUE>>

\* lines 313-319: what the click on a row with this label stores; the
\* result is <<value of selected_district_click, difflib's result or None,
\* whether selected_district_click was assigned>>
ClickStore(label, list, stored) ==
    IF label \in Range(list) THEN <<Some(label), None, TRUE>>
    ELSE LET uppers == [k \in 1..Len(list) |-> upper(list[k])]
             match == get_close_matches(upper(label), uppers, cutoff_default)
         IN IF match # << >>
            THEN <<Some(list[IndexOf(uppers, match[1])]), match, TRUE>>
            ELSE <<stored, None, FALSE>>

\* lines 326-328 (0-based, as Python counts)
DefaultIndexOf(stored, list) ==
    IF stored # None /\ stored[1] \in Range(list)
    THEN IndexOf(list, stored[1]) - 1
    ELSE 0

\* variant: every candidate is accepted
VillageMatch_AnyScore(target, dists) == get_close_matches(target, dists, 0)

\* line 370
VillageMatch(target, dists) == get_close_matches(target, dists, cutoff_village)

\* lines 363-372: the rows of the village file for the district:
\* <<target_dist, difflib's result or None, the rows kept>>
VillageRows(district, villages) ==
    LET match_col == [r \in 1..Len(villages) |-> strip(lower(str(villages[r])))]
        target == strip(lower(district))
        rows == [r \in 1..Len(villages) |-> r]
        exact == SelectSeq(rows, LAMBDA r : match_col[r] = target)
    IN IF exact # << >> THEN <<target, None, exact>>
       ELSE LET m == VillageMatch(target, unique(match_col))
            IN IF m # << >>
               THEN <<target, m, SelectSeq(rows, LAMBDA r : match_col[r] = m[1])>>
               ELSE <<target, None, << >> >>

Assam == <<"A","s","s","a","m">>
Asom == <<"A","s","o","m">>
Jorhat == <<"J","o","r","h","a","t">>

\* the polygons of the shapefile: two states, one written differently from
\* the workbook's file name
SessionPolyPool ==
    {[ST_NM |-> Asom, District |-> PyStr(<<"G","A","Y","A">>)],
     [ST_NM |-> Asom, District |-> PyStr(upper(Jorhat))],
     [ST_NM |-> Asom, District |-> PyNone],
     [ST_NM |-> Bihar, District |-> PyStr(<<"G","A","Y","E">>)]}

DfBoth == <<[Week |-> 1, Score |-> 0], [Week |-> 2, Score |-> 50]>>
DfLate == <<[Week |-> 2, Score |-> 80]>>

\* load_data(): the workbooks of two states, as <<state, workbook>> pairs in
\* the order of the dict
SessionDataMaps ==
    {<< <<Assam, <<[name |-> <<"G","A","Y">>, df |-> DfLate],
                   [name |-> Jorhat, df |-> DfBoth]>> >>,
        <<Bihar, <<[name |-> <<"G","a","y","e">>, df |-> DfBoth]>> >> >>,
     << <<Assam, <<[name |-> <<"G","a","y","e">>, df |-> DfLate],
                   [name |-> Jorhat, df |-> DfBoth]>> >>,
        <<Bihar, <<[name |-> <<"G","a","y","e">>, df |-> DfLate]>> >> >>}

\* the district column of the village file of a state
VillageTables ==
    {<<PyStr(<<"G","o","l","a","g","h","a","t">>)>>,
     <<PyStr(Jorhat \o <<" ">>), PyStr(<<"G","o","l","a","g","h","a","t">>)>>,
     <<PyStr(<<"K","a","m","r","u","p">>)>>}

\* lines 197-235: the first run of the session
SessionLoaded ==
    /\ spc = "run"
    /\ data_map \in SessionDataMaps
    /\ selected_district_click = None
    /\ click_district_list = << >>
    /\ clicked_district = None
    /\ click_match = None
    /\ default_index = None
    /\ villages_gdf = << >>
    /\ target_dist = << >>
    /\ v_match = None
    /\ local_villages = << >>
    /\ pc = "load"
    /\ \E k \in 1..Len(data_map) :
          selected_state = data_map[k][1] /\ state_data = data_map[k][2]
    /\ target_week \in Weeks
    /\ gdf \in NonEmptySeq(SessionPolyPool, MaxPolys)
    /\ risk_df = << >>
    /\ state_gdf = << >>
    /\ clean_map = << >>
    /\ clean_excel = << >>
    /\ map_names = << >>
    /\ excel_names = << >>
    /\ mapping = << >>
    /\ fuzzy_calls = {}
    /\ merged = << >>
    /\ warnings = {}

\* lines 309-319: the run was started by a click on a row of the map
HandleClick ==
    /\ spc = "run"
    /\ pc = "merged"
    /\ \E point_index \in 1..Len(merged) :
          \E r \in {ClickStore(merged[point_index].Display_Label,
                                district_list(state_data),
                                selected_district_click)} :
             /\ clicked_district' = Some(merged[point_index].Display_Label)
             /\ selected_district_click' = r[1]
             /\ click_match' = r[2]
             /\ click_district_list' = IF r[3] THEN district_list(state_data)
                                       ELSE click_district_list
    /\ spc' = "clicked"
    /\ UNCHANGED <<data_map, default_index, villages_gdf, target_dist, v_match,
                   local_villages>>

\* lines 326-330; without a click event the map column ends at line 308,
\* without a map at line 253 or 321
DefaultIndex ==
    /\ \/ spc = "clicked"
       \/ spc = "run" /\ pc \in {"merged", "done"}
    /\ default_index' =
           Some(DefaultIndexOf(selected_district_click, district_list(state_data)))
    /\ spc' = "select"
    /\ UNCHANGED <<data_map, selected_district_click, click_district_list,
                   clicked_district, click_match, villages_gdf, target_dist,
                   v_match, local_villages>>

\* lines 349-372: the village file of an advanced state, its rows for the
\* selected district
VillageLookup ==
    /\ spc = "select"
    /\ dpc = "details"
    /\ is_advanced_mode(selected_state)
    /\ \E v \in VillageTables :
          \E r \in {VillageRows(selected_dist_map, v)} :
             /\ villages_gdf' = v
             /\ target_dist' = r[1]
             /\ v_match' = r[2]
             /\ local_villages' = r[3]
    /\ spc' = "villages"
    /\ UNCHANGED <<data_map, selected_district_click, click_district_list,
                   clicked_district, click_match, default_index>>

\* the script runs again (a widget was changed or the map was clicked):
\* st.session_state is kept, the state and the week are those of the sidebar
Rerun ==
    /\ spc \in {"select", "villages"}
    /\ spc' = "run"
    /\ clicked_district' = None
    /\ click_match' = None
    /\ default_index' = None
    /\ villages_gdf' = << >>
    /\ target_dist' = << >>
    /\ v_match' = None
    /\ local_villages' = << >>
    /\ pc' = "load"
    /\ \E k \in 1..Len(data_map) :
          selected_state' = data_map[k][1] /\ state_data' = data_map[k][2]
    /\ target_week' \in Weeks
    /\ risk_df' = << >>
    /\ state_gdf' = << >>
    /\ clean_map' = << >>
    /\ clean_excel' = << >>
    /\ map_names' = << >>
    /\ excel_names' = << >>
    /\ mapping' = << >>
    /\ fuzzy_calls' = {}
    /\ merged' = << >>
    /\ warnings' = {}
    /\ dpc' = "select"
    /\ selected_dist_map' = << >>
    /\ indicators' = None
    /\ indicator_fuzzy' = FALSE
    /\ UNCHANGED <<data_map, gdf, indicators_df, selected_district_click,
                   click_district_list>>

----------------------------------------------------------------------------
(* Specifications *)

\* the map column of one run of main()
Init == MapLoaded /\ DetailLoaded /\ NormIdle /\ GeoIdle /\ SessionIdle

Next ==
    \/ DataPrep /\ UNCHANGED <<normVars, geoVars, detailVars, sessionVars>>
    \/ SkipMap /\ UNCHANGED <<normVars, geoVars, detailVars, sessionVars>>
    \/ MatchState /\ UNCHANGED <<normVars, geoVars, detailVars, sessionVars>>
    \/ NoStateMatch /\ UNCHANGED <<normVars, geoVars, detailVars, sessionVars>>
    \/ CleanNames /\ UNCHANGED <<normVars, geoVars, detailVars, sessionVars>>
    \/ MapName /\ UNCHANGED <<normVars, geoVars, detailVars, sessionVars>>
    \/ Merge /\ UNCHANGED <<normVars, geoVars, detailVars, sessionVars>>
    \/ Details /\ UNCHANGED <<normVars, geoVars, mapVars, sessionVars>>

Spec == Init /\ [][Next]_vars

\* smart_fix_name on its own
InitNorm ==
    /\ npc = "input"
    /\ name_in \in NormInputs
    /\ out1 = << >>
    /\ out2 = << >>
    /\ MapIdle
    /\ DetailIdle
    /\ GeoIdle
    /\ SessionIdle

NextNorm ==
    \/ Normalize /\ UNCHANGED <<mapVars, geoVars, detailVars, sessionVars>>
    \/ Renormalize /\ UNCHANGED <<mapVars, geoVars, detailVars, sessionVars>>

SpecNorm == InitNorm /\ [][NextNorm]_vars

\* the containment query on its own
InitGeo == GeoLoaded /\ MapIdle /\ DetailIdle /\ NormIdle /\ SessionIdle

NextGeo ==
    \/ PreFilter /\ UNCHANGED <<mapVars, normVars, detailVars, sessionVars>>
    \/ ExactFilter /\ UNCHANGED <<mapVars, normVars, detailVars, sessionVars>>

SpecGeo == InitGeo /\ [][NextGeo]_vars

\* the spellings a name of the alias table is written in
AliasForms(n) == {n, lower(n), n \o <<" ","D","t",".">>}

\* the two sides of the entries of UNIVERSAL_FIXES, in both directions
AliasPairs ==
    {<<UNIVERSAL_FIXES[k][1], UNIVERSAL_FIXES[k][2]>> : k \in 1..Len(UNIVERSAL_FIXES)}
    \cup
    {<<UNIVERSAL_FIXES[k][2], UNIVERSAL_FIXES[k][1]>> : k \in 1..Len(UNIVERSAL_FIXES)}

\* the map column run on one polygon and one sheet that carry the two sides
\* of an alias entry
InitAlias ==
    /\ pc = "load"
    /\ selected_state = Bihar
    /\ target_week \in Weeks
    /\ \E e \in AliasPairs :
          /\ \E f \in AliasForms(e[1]) :
                gdf = <<[ST_NM |-> Bihar, District |-> PyStr(f)]>>
          /\ \E f \in AliasForms(e[2]) :
                state_data = <<[name |-> f,
                                df |-> <<[Week |-> 1, Score |-> 0],
                                         [Week |-> 2, Score |-> 50]>>]>>
    /\ risk_df = << >>
    /\ state_gdf = << >>
    /\ clean_map = << >>
    /\ clean_excel = << >>
    /\ map_names = << >>
    /\ excel_names = << >>
    /\ mapping = << >>
    /\ fuzzy_calls = {}
    /\ merged = << >>
    /\ warnings = {}
    /\ DetailIdle
    /\ NormIdle
    /\ GeoIdle
    /\ SessionIdle

NextAlias ==
    \/ DataPrep /\ UNCHANGED <<normVars, geoVars, detailVars, sessionVars>>
    \/ MatchState /\ UNCHANGED <<normVars, geoVars, detailVars, sessionVars>>
    \/ CleanNames /\ UNCHANGED <<normVars, geoVars, detailVars, sessionVars>>
    \/ MapName /\ UNCHANGED <<normVars, geoVars, detailVars, sessionVars>>
    \/ Merge /\ UNCHANGED <<normVars, geoVars, detailVars, sessionVars>>

SpecAlias == InitAlias /\ [][NextAlias]_vars

\* the runs of one session
InitSession == SessionLoaded /\ DetailLoaded /\ NormIdle /\ GeoIdle

NextSession ==
    \/ DataPrep /\ UNCHANGED <<normVars, geoVars, detailVars, sessionVars>>
    \/ SkipMap /\ UNCHANGED <<normVars, geoVars, detailVars, sessionVars>>
    \/ MatchState /\ UNCHANGED <<normVars, geoVars, detailVars, sessionVars>>
    \/ NoStateMatch /\ UNCHANGED <<normVars, geoVars, detailVars, sessionVars>>
    \/ CleanNames /\ UNCHANGED <<normVars, geoVars, detailVars, sessionVars>>
    \/ MapName /\ UNCHANGED <<normVars, geoVars, detailVars, sessionVars>>
    \/ Merge /\ UNCHANGED <<normVars, geoVars, detailVars, sessionVars>>
    \/ HandleClick /\ UNCHANGED <<normVars, geoVars, detailVars, mapVars>>
    \/ DefaultIndex /\ UNCHANGED <<normVars, geoVars, detailVars, mapVars>>
    \/ spc = "select" /\ Details
           /\ UNCHANGED <<normVars, geoVars, mapVars, sessionVars>>
    \/ VillageLookup /\ UNCHANGED <<normVars, geoVars, detailVars, mapVars>>
    \/ Rerun /\ UNCHANGED <<normVars, geoVars>>

SpecSession == InitSession /\ [][NextSession]_vars

----------------------------------------------------------------------------
(* Properties *)

\* the district d of the workbook has a row for the selected week
HasWeek(d) == WeekRows(state_data[d].df, target_week) # << >>

\* its risk score for the selected week
WeekScore(d) == WeekRows(state_data[d].df, target_week)[1].Score

\* normalized and alias-resolved forms of the sheet names and of the polygon
\* names, tabulated
SheetKeys ==
    [n \in SheetNames \cup {w[1].name : w \in GoaWorkbooks}
        |-> CleanName(PyStr(n))]
PolyKeys == [x \in PolyDistricts |-> CleanName(x)]

\* normalized and alias-resolved forms of a sheet name and of a polygon name
SourceKey(d) == SheetKeys[state_data[d].name]
TargetKey(i) == PolyKeys[state_gdf[i].District]

Districts == 1..Len(state_data)
Polygons == 1..Len(state_gdf)

\* the record of district d reconciles to the polygon i
ReconcilesTo(d, i) ==
    /\ HasWeek(d)
    /\ SourceKey(d) \in DOMAIN mapping
    /\ mapping[SourceKey(d)] = Some(TargetKey(i))

RecordsOf(i) == {d \in Districts : ReconcilesTo(d, i)}

RowsOf(i) == {k \in 1..Len(merged) : merged[k].poly = i}

\* a candidate reaches the cutoff of the district join
Close(c, word) == AtLeast(ratio(c, word), cutoff_district)

\* C1: smart_fix_name is idempotent: normalizing the result of normalizing a
\* string gives that result again.
C1_Idempotent ==
    (npc = "twice" /\ name_in.kind = "str") => out2 = out1

\* C10: for a value that is not a string, smart_fix_name returns the
\* normalization of its string form.
C10_NonStringNormalized ==
    (npc \in {"once", "twice"} /\ name_in.kind # "str")
        => out1 = smart_fix_name(PyStr(str(name_in)))

\* the indicator rows whose key equals the key of the selected district
ExactRows ==
    {r \in 1..Len(indicators_df) :
        MatchKey(indicators_df[r]) = MatchKey(PyStr(selected_dist_map))}

\* C2: a sheet name whose normalized, alias-resolved form equals that of a
\* polygon name is mapped to exactly that name, and difflib is not called for
\* it; a selected district whose key equals the key of an indicator row gets
\* such a row, and difflib is not called for it.
C2_ExactMatchPriority ==
    /\ \A d \in Districts, i \in Polygons :
          (/\ pc \in {"mapping", "merged"}
           /\ HasWeek(d)
           /\ SourceKey(d) = TargetKey(i)
           /\ SourceKey(d) \in DOMAIN mapping)
              => /\ mapping[SourceKey(d)] = Some(TargetKey(i))
                 /\ SourceKey(d) \notin fuzzy_calls
    /\ (dpc = "details" /\ ExactRows # {})
          => /\ indicators # None
             /\ indicators[1] \in ExactRows
             /\ ~indicator_fuzzy

\* an exact match made while another polygon name is within the cutoff of the
\* same sheet name, and difflib was called for another sheet; an indicator
\* row found by its key while another row is within the cutoff
C2_Witness ==
    /\ pc = "merged"
    /\ fuzzy_calls # {}
    /\ \E d \in Districts, i \in Polygons :
          /\ HasWeek(d)
          /\ SourceKey(d) = TargetKey(i)
          /\ \E c \in Range(map_names) : c # SourceKey(d) /\ Close(c, SourceKey(d))
    /\ dpc = "details"
    /\ ExactRows # {}
    /\ \E r \in 1..Len(indicators_df) :
          /\ r \notin ExactRows
          /\ AtLeast(ratio(MatchKey(indicators_df[r]),
                           MatchKey(PyStr(selected_dist_map))),
                     cutoff_indicators)

\* C3: the merged table holds exactly one row per polygon.
C3_OneRowPerPolygon ==
    pc = "merged" => \A i \in Polygons : Cardinality(RowsOf(i)) = 1

\* C4: a polygon no record reconciles to carries the score 0; a polygon a
\* record reconciles to carries that record's score for the selected week.
C4_ScoreAttached ==
    pc = "merged" =>
        \A i \in Polygons :
            IF RecordsOf(i) = {}
            THEN /\ RowsOf(i) # {}
                 /\ \A k \in RowsOf(i) : merged[k].RiskScore = 0
            ELSE /\ \A d \in RecordsOf(i) : \E k \in RowsOf(i) :
                        /\ merged[k].Excel_District = Some(state_data[d].name)
                        /\ merged[k].RiskScore = WeekScore(d)
                 /\ \A k \in RowsOf(i) : \E d \in RecordsOf(i) :
                        /\ merged[k].Excel_District = Some(state_data[d].name)
                        /\ merged[k].RiskScore = WeekScore(d)

\* one polygon without a record, another carrying a record's non-zero score
C4_Witness ==
    /\ pc = "merged"
    /\ \E i \in Polygons : RecordsOf(i) = {}
    /\ \E i \in Polygons : \E d \in RecordsOf(i) : \E k \in RowsOf(i) :
          WeekScore(d) > 0 /\ merged[k].RiskScore = WeekScore(d)

RECURSIVE ComesBack(_, _, _, _)
ComesBack(table, start, cur, steps) ==
    IF steps = 0 THEN FALSE
    ELSE LET nxt == Replace1(table, cur)
         IN \/ nxt = start
            \/ nxt # cur /\ ComesBack(table, start, nxt, steps - 1)

\* the table holds a resolution cycle
HasCycle(table) ==
    \E n \in AliasKeys(table) : ComesBack(table, n, n, Len(table))

\* C6: the names are never reconciled with an alias table that holds a cycle.
C6_CyclicTableRejected ==
    pc \in {"mapping", "merged"} => ~HasCycle(UNIVERSAL_FIXES)

\* the sheet name of district d has no exact match and no candidate within
\* the cutoff
Unmatched(d) ==
    /\ HasWeek(d)
    /\ SourceKey(d) \notin Range(map_names)
    /\ \A c \in Range(map_names) : ~Close(c, SourceKey(d))

\* C7: a sheet name without exact match and without candidate at or above
\* the cutoff is mapped to None, is listed in what the run reports, and its
\* record is attached to no polygon.
C7_UnmatchedReported ==
    pc = "merged" =>
        \A d \in Districts :
            Unmatched(d) =>
                /\ mapping[SourceKey(d)] = None
                /\ \E w \in warnings : w.name = state_data[d].name
                /\ \A k \in 1..Len(merged) :
                      merged[k].Excel_District # Some(state_data[d].name)

\* the orders the same candidates can be presented in
Orders(names) ==
    {p \in [1..Len(names) -> Range(names)] : Range(p) = Range(names)}

\* C8: the match of every sheet name is the same for every order of the
\* same candidate names, ties at the best score included.
C8_OrderIndependent ==
    pc \in {"mapping", "merged"} =>
        \A p \in Orders(map_names) : \A e \in DOMAIN mapping :
            /\ Reconcile1(e, p)[1] = mapping[e]
            /\ e \in fuzzy_calls =>
                   get_close_matches(e, p, cutoff_district) = mapping[e]

\* a fuzzy match decided between two candidates that tie at the best score
C8_Witness ==
    /\ pc = "merged"
    /\ \E e \in fuzzy_calls : \E c1, c2 \in Range(map_names) :
          /\ c1 # c2
          /\ mapping[e] = Some(c1)
          /\ Close(c1, e)
          /\ ~RatioLess(ratio(c1, e), ratio(c2, e))
          /\ ~RatioLess(ratio(c2, e), ratio(c1, e))

\* C9: every amenity whose geometry is within the village polygon is among
\* the candidates the bounding-box query returns, and so among the amenities
\* found inside.
C9_PrefilterSuperset ==
    /\ cpc \in {"candidates", "inside"} =>
           \A r \in 1..Len(district_resources) :
               within(district_resources[r], poly)
                   => r \in Range(possible_matches_index)
    /\ cpc = "inside" =>
           \A r \in 1..Len(district_resources) :
               within(district_resources[r], poly)
                   => r \in Range(amenities_inside)

\* the query kept an amenity that is inside and dropped another, whose
\* bounding box lies outside the polygon's
C9_Witness ==
    /\ cpc = "inside"
    /\ \E r \in Range(amenities_inside) : within(district_resources[r], poly)
    /\ \E r \in 1..Len(district_resources) :
          /\ district_resources[r] # {}
          /\ r \notin Range(possible_matches_index)

\* C11: a polygon and a record whose names normalize to the two sides of an
\* alias entry get the same key once the alias table is applied to both, and
\* the record is joined to the polygon.
C11_AliasSidesJoined ==
    (pc = "merged" /\ Len(state_gdf) = 1 /\ Len(risk_df) = 1
        /\ <<smart_fix_name(state_gdf[1].District),
             smart_fix_name(PyStr(risk_df[1].Excel_District))>> \in AliasPairs)
        => /\ clean_map[1] = clean_excel[1]
           /\ \E k \in 1..Len(merged) :
                 merged[k].Excel_District = Some(risk_df[1].Excel_District)

\* C13: applying the alias table to a name it has already been applied to
\* changes nothing.
C13_ResolveIdempotent ==
    pc \in {"mapping", "merged"} =>
        /\ \A i \in 1..Len(clean_map) :
              Replace1(UNIVERSAL_FIXES, clean_map[i]) = clean_map[i]
        /\ \A j \in 1..Len(clean_excel) :
              Replace1(UNIVERSAL_FIXES, clean_excel[j]) = clean_excel[j]

\* the cutoff written at a call site of difflib.get_close_matches
SiteCutoff(site) ==
    CASE site = "district" -> cutoff_district
      [] site = "indicator" -> cutoff_indicators
      [] site = "state" -> cutoff_default
      [] site = "click" -> cutoff_default
      [] site = "village" -> cutoff_village

\* the matches difflib has returned in this run, as <<call site, score>>
FuzzyAccepted ==
    {<<"district", ratio(mapping[e][1], e)>> :
        e \in {x \in fuzzy_calls \cap DOMAIN mapping : mapping[x] # None}}
    \cup (IF state_gdf # << >>
          THEN {<<"state", ratio(upper(state_gdf[1].ST_NM), upper(selected_state))>>}
          ELSE {})
    \cup (IF dpc = "details" /\ indicator_fuzzy /\ indicators # None
          THEN {<<"indicator", ratio(MatchKey(indicators_df[indicators[1]]),
                                     MatchKey(PyStr(selected_dist_map)))>>}
          ELSE {})
    \cup (IF click_match # None
          THEN {<<"click", ratio(click_match[1], upper(clicked_district[1]))>>}
          ELSE {})
    \cup (IF v_match # None
          THEN {<<"village", ratio(v_match[1], target_dist)>>}
          ELSE {})

\* C12, as stated: at no call site is a candidate accepted whose score is
\* below 0.6.
C12_NoMatchBelow06 ==
    \A a \in FuzzyAccepted : AtLeast(a[2], cutoff_default)

\* C12, amended: a candidate is accepted only with a score at or above the
\* cutoff of its call site (0.7 district join and indicator lookup, 0.6 state
\* and clicked-district lookup, 0.5 village-district lookup), so never with
\* a score below 0.5.
C12_NoMatchBelowSiteCutoff ==
    \A a \in FuzzyAccepted :
        /\ AtLeast(a[2], SiteCutoff(a[1]))
        /\ AtLeast(a[2], cutoff_village)

\* the villages of a district found under a name that scores below 0.6,
\* in a run whose state was matched with a score below 0.7
C12_Witness ==
    /\ spc = "villages"
    /\ v_match # None
    /\ ~AtLeast(ratio(v_match[1], target_dist), cutoff_default)
    /\ state_gdf # << >>
    /\ ~AtLeast(ratio(upper(state_gdf[1].ST_NM), upper(selected_state)),
                cutoff_district)

\* C14: the stored click is None or a member of the district list of the
\* state selected when it was stored; the default index of the selector is
\* an index of the current district list, that of the stored district when
\* the list holds it, else 0.
C14_ClickAndDefaultIndex ==
    /\ selected_district_click # None
          => selected_district_click[1] \in Range(click_district_list)
    /\ default_index # None
          => LET list == district_list(state_data)
                 i == default_index[1]
             IN /\ i \in 0..(Len(list) - 1)
                /\ IF /\ selected_district_click # None
                      /\ selected_district_click[1] \in Range(list)
                   THEN list[i + 1] = selected_district_click[1]
                   ELSE i = 0

\* a district stored by a click in one state, the selector of another state
\* whose list does not hold it
C14_Witness ==
    /\ spc = "select"
    /\ selected_district_click # None
    /\ click_district_list # district_list(state_data)
    /\ selected_district_click[1] \notin Range(district_list(state_data))
    /\ default_index = Some(0)

====
